---- MODULE Spec2Model ----
(***************************************************************************)
(* A model of the handwritten-form extraction backend: the record store    *)
(* of backend/database.py (one SQLite table) and the API service of        *)
(* backend/main.py (upload, extraction, CRUD endpoints).                   *)
(*                                                                         *)
(* Text is modelled by TLA+ strings; a JSON value is a tagged record       *)
(*   [t |-> "str", v |-> "abc"]   [t |-> "num", v |-> 7]                   *)
(*   [t |-> "lit", v |-> "null"]  [t |-> "arr", v |-> <<values>>]          *)
(*   [t |-> "obj", v |-> <<[k |-> key, v |-> value], ...>>]                *)
(* An object keeps its members in insertion order, as a Python dict does.  *)
(***************************************************************************)
EXTENDS Integers, Sequences, FiniteSets, TLC

VARIABLES records, sqlite_sequence, clock, hf_token, PDF_SUPPORT, last, written, deleted

vars == <<records, sqlite_sequence, clock, hf_token, PDF_SUPPORT, last, written, deleted>>

(***************************************************************************)
(* Bounds of the model.                                                    *)
(***************************************************************************)
\* rowids the store hands out before the model stops inserting
MaxSeq == 2
\* seconds the clock may advance
MaxClock == 1
\* pages of a rendered PDF
MaxPages == 2

(***************************************************************************)
(* Binding. The({e : x \in {d}}) is e with x standing for the value of d,  *)
(* as LET x == d IN e is; it is written where d is long to compute and x   *)
(* is used more than once, so that d is computed once.                     *)
(***************************************************************************)
The(S) == CHOOSE only \in S : TRUE

(***************************************************************************)
(* Strings.                                                                *)
(***************************************************************************)
Min(a, b) == IF a < b THEN a ELSE b

Max(a, b) == IF a > b THEN a ELSE b

\* s[i-1] for a 1-based i, "" outside the string
CharAt(s, i) == IF i >= 1 /\ i <= Len(s) THEN SubSeq(s, i, i) ELSE ""

\* s[:n]
Prefix(s, n) == SubSeq(s, 1, Min(n, Len(s)))

\* s[i-1:] for a 1-based i
Suffix(s, i) == SubSeq(s, i, Len(s))

\* the least member of a non-empty set of indices
Least(S) == CHOOSE i \in S : \A j \in S : i <= j

\* the greatest member of a non-empty set of indices
Greatest(S) == CHOOSE i \in S : \A j \in S : j <= i

\* the 1-based index of the first character of str at or after from that is in
\* C, 0 if none
FindAny(str, C, from) ==
  The({The({IF hits = {} THEN 0 ELSE Least(hits)
            : hits \in {{j \in i..Len(s) : SubSeq(s, j, j) \in C}}})
       : s \in {str}, i \in {from}})

\* str.find from i: the 1-based index of the first c at or after i, 0 if none
FindFrom(s, c, i) == FindAny(s, {c}, i)

\* str.rfind up to i: the 1-based index of the last c at or before i, 0 if none
RFindFrom(str, c, upto) ==
  The({The({IF hits = {} THEN 0 ELSE Greatest(hits)
            : hits \in {{j \in 1..Min(i, Len(s)) : SubSeq(s, j, j) = c}}})
       : s \in {str}, i \in {upto}})

Find(s, c) == FindFrom(s, c, 1)

RFind(s, c) == RFindFrom(s, c, Len(s))

RECURSIVE Repeat(_, _)
\* c * n
Repeat(c, n) ==
  IF n <= 0 THEN ""
  ELSE LET half == Repeat(c, n \div 2) IN half \o half \o (IF n % 2 = 1 THEN c ELSE "")

UpperChars == "ABCDEFGHIJKLMNOPQRSTUVWXYZ"

LowerChars == "abcdefghijklmnopqrstuvwxyz"

LowerChar(c) ==
  The({IF i = 0 THEN c ELSE CharAt(LowerChars, i) : i \in {Find(UpperChars, c)}})

RECURSIVE LowerFrom(_, _)
\* the characters of s from the i-th on, in lower case
LowerFrom(s, i) ==
  IF i > Len(s) THEN "" ELSE LowerChar(SubSeq(s, i, i)) \o LowerFrom(s, i + 1)

\* str.lower
Lower(str) == The({LowerFrom(s, 1) : s \in {str}})

(***************************************************************************)
(* JSON values.                                                            *)
(***************************************************************************)
JStr(s) == [t |-> "str", v |-> s]

JNum(n) == [t |-> "num", v |-> n]

JLit(w) == [t |-> "lit", v |-> w]

JArr(items) == [t |-> "arr", v |-> items]

JObj(members) == [t |-> "obj", v |-> members]

Member(k, x) == [k |-> k, v |-> x]

HasKey(obj, k) == \E i \in 1..Len(obj.v) : obj.v[i].k = k

\* obj[k], for a key the object has
Get(obj, k) == obj.v[CHOOSE i \in 1..Len(obj.v) : obj.v[i].k = k].v

\* obj[k] = x: a present key keeps its place, a new key goes last
Put(object, k, x) ==
  The({IF HasKey(obj, k)
       THEN JObj([i \in 1..Len(obj.v) |-> IF obj.v[i].k = k THEN Member(k, x) ELSE obj.v[i]])
       ELSE JObj(Append(obj.v, Member(k, x)))
       : obj \in {object}})

\* {"label": l, "value": x}
Field(l, x) == JObj(<<Member("label", JStr(l)), Member("value", JStr(x))>>)

\* {"fields": [...]}
FieldsDoc(fs) == JObj(<<Member("fields", JArr(fs))>>)

(***************************************************************************)
(* json.dumps, with Python's defaults: ", " and ": " as separators, and    *)
(* the quote, the backslash and control characters escaped in strings.     *)
(***************************************************************************)
EscapeChar(c) ==
  CASE c = "\"" -> "\\\""
    [] c = "\\" -> "\\\\"
    [] c = "\n" -> "\\n"
    [] c = "\r" -> "\\r"
    [] c = "\t" -> "\\t"
    [] OTHER -> c

Escaped == {"\"", "\\", "\n", "\r", "\t"}

RECURSIVE EscapeFrom(_, _)
\* the characters of s from the i-th on: every escaped character replaced, the
\* stretches between them copied
EscapeFrom(s, i) ==
  The({IF j = 0 THEN Suffix(s, i)
       ELSE SubSeq(s, i, j - 1) \o EscapeChar(CharAt(s, j)) \o EscapeFrom(s, j + 1)
       : j \in {FindAny(s, Escaped, i)}})

Escape(str) == The({EscapeFrom(s, 1) : s \in {str}})

RECURSIVE json_dumps(_)
RECURSIVE DumpItems(_, _)
RECURSIVE DumpMembers(_, _)
DumpItems(items, i) ==
  IF i > Len(items) THEN ""
  ELSE (IF i > 1 THEN ", " ELSE "") \o json_dumps(items[i]) \o DumpItems(items, i + 1)

DumpMembers(ms, i) ==
  IF i > Len(ms) THEN ""
  ELSE (IF i > 1 THEN ", " ELSE "") \o "\"" \o Escape(ms[i].k) \o "\": "
       \o json_dumps(ms[i].v) \o DumpMembers(ms, i + 1)

json_dumps(value) ==
  The({CASE x.t = "str" -> "\"" \o Escape(x.v) \o "\""
         [] x.t = "num" -> ToString(x.v)
         [] x.t = "lit" -> x.v
         [] x.t = "arr" -> "[" \o DumpItems(x.v, 1) \o "]"
         [] x.t = "obj" -> "{" \o DumpMembers(x.v, 1) \o "}"
       : x \in {value}})

(***************************************************************************)
(* json.loads: Python's decoder over the characters the model's texts are  *)
(* written in (objects, arrays, strings with the escapes above, integers,  *)
(* true/false/null, blanks between tokens). A result is                    *)
(* [ok, val, pos]: pos is the index after the value; ok = FALSE is         *)
(* json.JSONDecodeError.                                                   *)
(***************************************************************************)
Digits == "0123456789"

IsDigit(c) == c # "" /\ Find(Digits, c) # 0

DigitVal(c) == Find(Digits, c) - 1

IsWs(c) == c \in {" ", "\t", "\n", "\r"}

DecodeError == [ok |-> FALSE, val |-> JLit("null"), pos |-> 0]

Decoded(x, pos) == [ok |-> TRUE, val |-> x, pos |-> pos]

RECURSIVE SkipWs(_, _)
SkipWs(s, i) == IF IsWs(CharAt(s, i)) THEN SkipWs(s, i + 1) ELSE i

Unescape(c) ==
  CASE c = "\"" -> "\""
    [] c = "\\" -> "\\"
    [] c = "/" -> "/"
    [] c = "n" -> "\n"
    [] c = "r" -> "\r"
    [] c = "t" -> "\t"
    [] OTHER -> ""

RECURSIVE ScanString(_, _, _)
\* the characters after an opening quote, up to the closing one, a stretch of
\* plain characters at a time (strict mode: a raw control character ends the
\* parse)
ScanString(s, i, acc) ==
  The({LET c == CharAt(s, j)
           chunk == acc \o SubSeq(s, i, j - 1)
       IN IF j = 0 \/ c \in {"\t", "\n", "\r"} THEN DecodeError
          ELSE IF c = "\"" THEN Decoded(chunk, j + 1)
          ELSE IF Unescape(CharAt(s, j + 1)) = "" THEN DecodeError
          ELSE ScanString(s, j + 2, chunk \o Unescape(CharAt(s, j + 1)))
       : j \in {FindAny(s, {"\"", "\\", "\t", "\n", "\r"}, i)}})

RECURSIVE ScanDigits(_, _, _)
ScanDigits(s, i, acc) ==
  IF IsDigit(CharAt(s, i)) THEN ScanDigits(s, i + 1, 10 * acc + DigitVal(CharAt(s, i)))
  ELSE [val |-> acc, pos |-> i]

\* -?(0|[1-9][0-9]*)
ParseNumber(s, i) ==
  LET neg == CharAt(s, i) = "-"
      d == IF neg THEN i + 1 ELSE i
      c == CharAt(s, d)
      n == IF c = "0" THEN [val |-> 0, pos |-> d + 1] ELSE ScanDigits(s, d, 0)
  IN IF ~IsDigit(c) THEN DecodeError
     ELSE Decoded(JNum(IF neg THEN 0 - n.val ELSE n.val), n.pos)

RECURSIVE ParseValue(_, _)
RECURSIVE ParseMembers(_, _, _)
RECURSIVE ParseItems(_, _, _)
\* i is at the opening quote of a member's name
ParseMembers(s, i, acc) ==
  IF CharAt(s, i) # "\"" THEN DecodeError
  ELSE The({
    LET j == SkipWs(s, k.pos) IN
    IF ~k.ok THEN DecodeError
    ELSE IF CharAt(s, j) # ":" THEN DecodeError
    ELSE The({
      LET e == SkipWs(s, x.pos)
          acc2 == Put(acc, k.val, x.val)
      IN IF ~x.ok THEN DecodeError
         ELSE IF CharAt(s, e) = "}" THEN Decoded(acc2, e + 1)
         ELSE IF CharAt(s, e) = "," THEN ParseMembers(s, SkipWs(s, e + 1), acc2)
         ELSE DecodeError
      : x \in {ParseValue(s, SkipWs(s, j + 1))}})
    : k \in {ScanString(s, i + 1, "")}})

\* i is at the first character of an item
ParseItems(s, i, acc) ==
  The({
    LET e == SkipWs(s, x.pos)
        acc2 == Append(acc, x.val)
    IN IF ~x.ok THEN DecodeError
       ELSE IF CharAt(s, e) = "]" THEN Decoded(JArr(acc2), e + 1)
       ELSE IF CharAt(s, e) = "," THEN ParseItems(s, SkipWs(s, e + 1), acc2)
       ELSE DecodeError
    : x \in {ParseValue(s, i)}})

ParseValue(s, at) ==
  The({
    CASE c = "\"" -> The({IF r.ok THEN Decoded(JStr(r.val), r.pos) ELSE DecodeError
                          : r \in {ScanString(s, i + 1, "")}})
      [] c = "{" -> The({IF CharAt(s, j) = "}" THEN Decoded(JObj(<<>>), j + 1)
                         ELSE ParseMembers(s, j, JObj(<<>>))
                         : j \in {SkipWs(s, i + 1)}})
      [] c = "[" -> The({IF CharAt(s, j) = "]" THEN Decoded(JArr(<<>>), j + 1)
                         ELSE ParseItems(s, j, <<>>)
                         : j \in {SkipWs(s, i + 1)}})
      [] c = "n" /\ SubSeq(s, i, Min(i + 3, Len(s))) = "null" -> Decoded(JLit("null"), i + 4)
      [] c = "t" /\ SubSeq(s, i, Min(i + 3, Len(s))) = "true" -> Decoded(JLit("true"), i + 4)
      [] c = "f" /\ SubSeq(s, i, Min(i + 4, Len(s))) = "false" -> Decoded(JLit("false"), i + 5)
      [] c = "-" \/ IsDigit(c) -> ParseNumber(s, i)
      [] OTHER -> DecodeError
    : i \in {at}, c \in {CharAt(s, at)}})

\* the whole text is one value, blanks around it allowed
json_loads(str) ==
  The({The({IF r.ok /\ SkipWs(s, r.pos) = Len(s) + 1 THEN r ELSE DecodeError
            : r \in {ParseValue(s, SkipWs(s, 1))}})
       : s \in {str}})

(***************************************************************************)
(* The extraction client (backend/main.py). One call's environment is      *)
(* env = [fault, status, body, payload]:                                   *)
(*   fault    "none", or "image" (Image.open raises) or "network"          *)
(*            (requests.post raises)                                       *)
(*   status   the HTTP status of the inference service                     *)
(*   body     response.text                                                *)
(*   payload  [shape, text]: the decoded body of a 200 response            *)
(* The messages of exceptions are not modelled character by character:     *)
(* str(e) is the text "<" \o type \o ">".                                  *)
(***************************************************************************)
ExcText(etype) == "<" \o etype \o ">"

RECURSIVE JoinBlank(_, _)
\* " ".join(parts)
JoinBlank(parts, i) ==
  IF i > Len(parts) THEN ""
  ELSE (IF i > 1 THEN " " ELSE "") \o parts[i] \o JoinBlank(parts, i + 1)

\* the normalisation of the payload to one text: [raised, etype, text]
GeneratedText(payload) ==
  CASE payload.shape = "not_json" ->
         [raised |-> TRUE, etype |-> "JSONDecodeError", text |-> ""]
    [] payload.shape = "chat" ->
         [raised |-> FALSE, etype |-> "", text |-> payload.text]
    [] payload.shape = "chat_parts" ->
         [raised |-> FALSE, etype |-> "", text |-> JoinBlank(payload.text, 1)]
    [] payload.shape = "chat_none" ->
         \* content is None: generated_text.find raises
         [raised |-> TRUE, etype |-> "AttributeError", text |-> ""]
    [] payload.shape = "chat_no_choice" ->
         \* "choices": []
         [raised |-> TRUE, etype |-> "IndexError", text |-> ""]
    [] payload.shape \in {"gen_list", "gen_dict", "other"} ->
         \* generated_text of the first item, of the dict, or str(result)
         [raised |-> FALSE, etype |-> "", text |-> payload.text]

\* generated_text[:500] without the slice
RawExcerptUncut(generated_text) == generated_text

\* generated_text[:500]
RawExcerpt(generated_text) == Prefix(generated_text, 500)

\* the document the model's text is turned into
ParseResponse(response) ==
  The({
    IF start # 0 /\ end > start - 1
    THEN The({
           IF ~extracted_data.ok
           THEN FieldsDoc(<<Field("JSON Parse Error", ExcText("JSONDecodeError")),
                            Field("Raw Response", Prefix(generated_text, 300))>>)
           ELSE IF HasKey(extracted_data.val, "fields")
                   /\ Get(extracted_data.val, "fields").t = "arr"
           THEN extracted_data.val
           ELSE FieldsDoc(<<Field("Parsing Error", "JSON structure is invalid")>>)
           : extracted_data \in {json_loads(SubSeq(generated_text, start, end))}})
    ELSE FieldsDoc(<<Field("Raw AI Response", RawExcerpt(generated_text)),
                     Field("Note", "AI did not return valid JSON. Showing raw response.")>>)
    : generated_text \in {response}, start \in {Find(response, "{")},
      end \in {RFind(response, "}")}})

ExtractionError(etype) ==
  FieldsDoc(<<Field("Extraction Error", ExcText(etype)), Field("Error Type", etype)>>)

\* extract_text_from_image: [raised, etype, data]; raised is the ValueError of a
\* missing API key, raised before the try block
extract_text_from_image(token, env) ==
  IF ~token THEN [raised |-> TRUE, etype |-> "ValueError", data |-> FieldsDoc(<<>>)]
  ELSE [raised |-> FALSE, etype |-> "", data |->
    IF env.fault = "image" THEN ExtractionError("UnidentifiedImageError")
    ELSE IF env.fault = "network" THEN ExtractionError("ReadTimeout")
    ELSE IF env.status = 503
    THEN FieldsDoc(<<Field("Model Status", "Model is loading, please try again in 20-30 seconds"),
                     Field("Status Code", "503")>>)
    ELSE IF env.status # 200
    THEN LET error_msg == IF env.body # "" THEN env.body ELSE "HTTP " \o ToString(env.status)
         IN FieldsDoc(<<Field("API Error", "Hugging Face API returned an error"),
                        Field("Details", Prefix(error_msg, 200)),
                        Field("Status Code", ToString(env.status))>>)
    ELSE The({IF g.raised THEN ExtractionError(g.etype) ELSE ParseResponse(g.text)
              : g \in {GeneratedText(env.payload)}})]

(***************************************************************************)
(* The page renderer. A PDF is pdf = [readable, pages]: convert_from_path  *)
(* raises on an unreadable file, and pages[k] is the environment of the    *)
(* extraction call for page k.                                             *)
(***************************************************************************)
\* format(x) of a label inside the f-string
PyFormat(x) ==
  CASE x.t = "str" -> x.v
    [] x.t = "num" -> ToString(x.v)
    [] x.t = "lit" -> (CASE x.v = "null" -> "None" [] x.v = "true" -> "True" [] x.v = "false" -> "False")
    [] OTHER -> "<repr>"

\* enumerate(images, start=0)
PageNumberFromZero(k) == k - 1

\* enumerate(images, start=1): the number of the k-th page
PageNumber(k) == k

PageLabel(page_num, label) == "Page " \o ToString(page_num) \o " - " \o PyFormat(label)

RECURSIVE LabelFields(_, _, _, _)
\* the inner loop over page_data["fields"]: [raised, etype, fields]
LabelFields(fields, page_num, i, acc) ==
  IF i > Len(fields) THEN [raised |-> FALSE, etype |-> "", fields |-> acc]
  ELSE LET field == fields[i] IN
       IF field.t # "obj" THEN [raised |-> TRUE, etype |-> "TypeError", fields |-> acc]
       ELSE IF ~HasKey(field, "label") THEN [raised |-> TRUE, etype |-> "KeyError", fields |-> acc]
       ELSE LabelFields(fields, page_num, i + 1,
                        Append(acc, Put(field, "label", JStr(PageLabel(page_num, Get(field, "label"))))))

RECURSIVE PageLoop(_, _, _, _)
\* the loop over the pages: [raised, etype, fields]
PageLoop(token, pages, k, all_fields) ==
  IF k > Len(pages) THEN [raised |-> FALSE, etype |-> "", fields |-> all_fields]
  ELSE The({
         IF page_data.raised THEN [raised |-> TRUE, etype |-> page_data.etype, fields |-> all_fields]
         ELSE The({IF labelled.raised THEN labelled
                   ELSE PageLoop(token, pages, k + 1, labelled.fields)
                   : labelled \in {LabelFields(Get(page_data.data, "fields").v, PageNumber(k), 1,
                                               all_fields)}})
         : page_data \in {extract_text_from_image(token, pages[k])}})

PdfProcessingError(etype) ==
  FieldsDoc(<<Field("PDF Processing Error", ExcText(etype)), Field("Error Type", etype)>>)

\* extract_text_from_pdf: the document; no exception leaves it
extract_text_from_pdf(token, pdf_support, pdf) ==
  IF ~pdf_support
  THEN FieldsDoc(<<Field("PDF Error", "pdf2image library not available"),
                   Field("Solution", "Install poppler-utils to enable PDF support")>>)
  ELSE IF ~pdf.readable THEN PdfProcessingError("PDFPageCountError")
  ELSE IF pdf.pages = <<>> THEN FieldsDoc(<<Field("PDF Error", "No pages found in PDF")>>)
  ELSE The({IF loop.raised THEN PdfProcessingError(loop.etype)
            ELSE IF loop.fields # <<>> THEN FieldsDoc(loop.fields)
            ELSE FieldsDoc(<<Field("No Data", "No text extracted from PDF")>>)
            : loop \in {PageLoop(token, pdf.pages, 1, <<>>)}})

(***************************************************************************)
(* The API service (backend/main.py): the upload's file name and its       *)
(* dispatch to an extraction function.                                     *)
(***************************************************************************)
\* os.path.splitext(p)[1]: from the last dot of the last path component, unless
\* only dots precede it there
splitext(p) ==
  The({IF dotIndex > sepIndex /\ \E j \in (sepIndex + 1)..(dotIndex - 1) : CharAt(p, j) # "."
       THEN Suffix(p, dotIndex)
       ELSE ""
       : sepIndex \in {RFind(p, "/")}, dotIndex \in {RFind(p, ".")}})

allowed_extensions == {".png", ".jpg", ".jpeg", ".pdf"}

\* os.path.splitext(file.filename)[1], without .lower()
file_ext_case_sensitive(filename) == splitext(filename)

\* os.path.splitext(file.filename)[1].lower()
file_ext(filename) == Lower(splitext(filename))

\* the extraction upload_file dispatches to by extension: [raised, data]
ExtractUpload(token, pdf_support, req) ==
  IF file_ext(req.filename) = ".pdf"
  THEN [raised |-> FALSE, data |-> extract_text_from_pdf(token, pdf_support, req.pdf)]
  ELSE The({[raised |-> r.raised, data |-> r.data] : r \in {extract_text_from_image(token, req.env)}})

(***************************************************************************)
(* Inputs. The texts a model may answer with and the documents a caller    *)
(* may write; the long ones straddle the cut-off lengths 500 and 300.      *)
(***************************************************************************)
TextOneField == "{\"fields\": [{\"label\": \"Name\", \"value\": \"Jon\"}]}"

TextTwoFields ==
  "Sure! {\"fields\": [{\"label\": \"Date\", \"value\": \"5/1\"}, {\"label\": \"City\", \"value\": \"say \\\"hi\\\"\"}]} Done."

TextNoFields == "{\"fields\": []}"

TextNumberLabel == "{\"fields\": [{\"label\": 7, \"value\": null, \"box\": [1, 2]}]}"

TextBareItem == "{\"fields\": [1]}"

TextNoLabel == "{\"fields\": [{\"value\": \"x\"}]}"

TextOtherKey == "{\"a\": 1}"

TextFieldsNotList == "{\"fields\": {\"label\": \"Name\"}}"

TextProse == "I cannot read this image."

\* texts that parse to a document with a list under "fields"
ParsedTexts == {TextOneField, TextTwoFields, TextNoFields, TextNumberLabel, TextBareItem, TextNoLabel}

\* texts that parse to an object without a list under "fields"
MisshapenTexts == {TextOtherKey, TextFieldsNotList, "{}"}

\* texts with a { ... } span that is no JSON
UnparsableTexts ==
  {"{\"fields\": [}", "{fields}", "{'fields': []}", "{\"fields\": []} and {\"a\": 1}",
   "{\"fields\": [], }", "{" \o Repeat("x", 299) \o "}", "{" \o Repeat("x", 298) \o "}"}

\* texts without a { ... } span
SpanlessTexts ==
  {"", TextProse, "{", "}", "} and {", Repeat("x", 499) \o "}", Repeat("y", 500), "{" \o Repeat("z", 500)}

Texts == ParsedTexts \cup MisshapenTexts \cup UnparsableTexts \cup SpanlessTexts

Answer(payload) == [fault |-> "none", status |-> 200, body |-> "", payload |-> payload]

Chat(text) == Answer([shape |-> "chat", text |-> text])

\* the environments of one extraction call
Envs ==
  {Answer([shape |-> sh, text |-> t]) : sh \in {"chat", "gen_list", "gen_dict", "other"}, t \in Texts}
  \cup {Answer([shape |-> "chat_parts", text |-> parts]) :
          parts \in {<<>>, <<"{\"fields\":", "[]}">>, <<"no", "json">>, <<"{\"a\":", "1}">>}}
  \cup {Answer([shape |-> sh, text |-> ""]) : sh \in {"not_json", "chat_none", "chat_no_choice"}}
  \cup {[fault |-> f, status |-> 0, body |-> "", payload |-> [shape |-> "none", text |-> ""]] :
          f \in {"image", "network"}}
  \cup {[fault |-> "none", status |-> st, body |-> b, payload |-> [shape |-> "none", text |-> ""]] :
          st \in {503, 500, 401}, b \in {"", "Service Unavailable", Repeat("e", 201)}}

\* the environments the pages of a PDF are drawn from
PageEnvs ==
  {Chat(TextOneField), Chat(TextTwoFields), Chat(TextNoFields), Chat(TextNumberLabel),
   Chat(TextNoLabel), Chat(TextBareItem), Chat(TextProse),
   [fault |-> "none", status |-> 503, body |-> "", payload |-> [shape |-> "none", text |-> ""]]}

RECURSIVE SeqsUpTo(_, _)
\* the sequences over S of length at most n
SeqsUpTo(S, n) ==
  IF n = 0 THEN {<<>>} ELSE LET shorter == SeqsUpTo(S, n - 1) IN
  shorter \cup {Append(q, x) : q \in {r \in shorter : Len(r) = n - 1}, x \in S}

Pdfs ==
  {[readable |-> TRUE, pages |-> ps] : ps \in SeqsUpTo(PageEnvs, MaxPages)}
  \cup {[readable |-> FALSE, pages |-> <<>>]}

NoPdf == [readable |-> FALSE, pages |-> <<>>]

\* the uploads the API is driven with
UploadEnvs == {Chat(TextOneField), Chat(TextBareItem), Chat("} and {"), Chat(Repeat("y", 501))}

Requests ==
  {[filename |-> "form.png", disk |-> "ok", env |-> e, pdf |-> NoPdf] : e \in UploadEnvs}
  \cup {[filename |-> "doc.pdf", disk |-> "ok", env |-> Chat(TextProse), pdf |-> d] :
          d \in {[readable |-> TRUE, pages |-> <<>>],
                 [readable |-> TRUE, pages |-> <<Chat(TextOneField), Chat(TextTwoFields)>>],
                 [readable |-> TRUE, pages |-> <<Chat(TextProse)>>]}}
  \cup {[filename |-> f, disk |-> "ok", env |-> Chat(TextOneField), pdf |-> NoPdf] :
          f \in {"", "notes.txt", "README", ".pdf", "form.png.exe", "v1.2/png", "photo.Jpeg",
                 "scans/scan.JPG"}}
  \cup {[filename |-> "form.png", disk |-> d, env |-> Chat(TextOneField), pdf |-> NoPdf] :
          d \in {"upload", "result"}}

DocName == FieldsDoc(<<Field("Name", "Jon")>>)

DocQuote == FieldsDoc(<<Field("Quote", "say \"hi\" \\ ok"), Field("Date", "5/1")>>)

DocEmpty == FieldsDoc(<<>>)

\* the documents the store is driven with directly
Docs == {DocQuote, DocEmpty}

\* the bodies PUT /records/{record_id} is driven with
PutBodies == {DocName, JObj(<<Member("note", JStr("no fields here"))>>), JArr(<<>>)}

TaskIds == {"t1", "t2", "t3"}

RecordIds == 1..(MaxSeq + 1)

(***************************************************************************)
(* Tables. The functions above are applied to the same few inputs in every  *)
(* state; each table holds one function's values over the inputs the model *)
(* applies it to, computed once.                                           *)
(***************************************************************************)
\* file_ext over the requests' file names
FileExts == [filename \in {req.filename : req \in Requests} |-> file_ext(filename)]

\* ExtractUpload over the requests
UploadExtractions ==
  [token \in BOOLEAN, pdf_support \in BOOLEAN, req \in Requests |->
     ExtractUpload(token, pdf_support, req)]

\* every document the model writes to the store
Documents ==
  Docs \cup {b \in PutBodies : b.t = "obj"}
  \cup {UploadExtractions[c].data : c \in BOOLEAN \X BOOLEAN \X Requests}

\* json.dumps over the documents
JsonDumps == [doc \in Documents |-> json_dumps(doc)]

\* json.loads over the texts the store holds
JsonLoads == [text \in {JsonDumps[doc] : doc \in Documents} |-> json_loads(text)]

(***************************************************************************)
(* The record store (backend/database.py). A row of the table `records`    *)
(* is [id, task_id, raw_json, created_at, updated_at] with raw_json the    *)
(* serialized TEXT. CURRENT_TIMESTAMP has a resolution of one second:      *)
(* created_at is the second `now` of the insertion.                         *)
(***************************************************************************)
None == [found |-> FALSE]

Ids(rows) == {r.id : r \in rows}

MaxId(rows) == IF rows = {} THEN 0 ELSE CHOOSE m \in Ids(rows) : \A i \in Ids(rows) : i <= m

\* INTEGER PRIMARY KEY without AUTOINCREMENT: one more than the largest rowid in
\* the table (NextRowid with the keyword left out)
NextRowidNoAutoincrement(rows, seq) == MaxId(rows) + 1

\* INTEGER PRIMARY KEY AUTOINCREMENT: one more than the largest rowid the table
\* ever held, which sqlite_sequence records
NextRowid(rows, seq) == Max(seq, MaxId(rows)) + 1

\* task_id TEXT NOT NULL: the column without its UNIQUE constraint
UniqueViolationNever(rows, task_id) == FALSE

\* task_id TEXT UNIQUE NOT NULL
UniqueViolation(rows, task_id) == \E r \in rows : r.task_id = task_id

\* insert_record: [raised, record_id, rows, seq]; raised is sqlite3.IntegrityError,
\* raised by execute before the commit, so nothing is written
insert_record(rows, seq, task_id, raw_json, now) ==
  LET record_id == NextRowid(rows, seq) IN
  IF UniqueViolation(rows, task_id)
  THEN [raised |-> TRUE, record_id |-> 0, rows |-> rows, seq |-> seq]
  ELSE [raised |-> FALSE, record_id |-> record_id,
        rows |-> rows \cup {[id |-> record_id, task_id |-> task_id,
                             raw_json |-> JsonDumps[raw_json],
                             created_at |-> now, updated_at |-> <<"sql", now>>]},
        seq |-> Max(seq, record_id)]

\* dict(row) with raw_json = json.loads(raw_json)
RowToRecord(r) ==
  [found |-> TRUE, id |-> r.id, task_id |-> r.task_id, raw_json |-> JsonLoads[r.raw_json].val,
   created_at |-> r.created_at, updated_at |-> r.updated_at]

\* the orders SELECT ... ORDER BY created_at DESC may return the rows in: any
\* order with created_at non-increasing (SQL leaves the order of rows with equal
\* keys open)
OrderByCreatedAtDesc(rows) ==
  {l \in [1..Cardinality(rows) -> rows] :
     /\ \A i, j \in 1..Cardinality(rows) : i # j => l[i] # l[j]
     /\ \A i, j \in 1..Cardinality(rows) : i < j => l[i].created_at >= l[j].created_at}

\* get_all_records: the listings a call may return
get_all_records(rows) ==
  {[i \in 1..Len(l) |-> RowToRecord(l[i])] : l \in OrderByCreatedAtDesc(rows)}

get_record_by_id(rows, record_id) ==
  IF \E r \in rows : r.id = record_id
  THEN RowToRecord(CHOOSE r \in rows : r.id = record_id)
  ELSE None

get_record_by_task_id(rows, task_id) ==
  IF \E r \in rows : r.task_id = task_id
  THEN RowToRecord(CHOOSE r \in rows : r.task_id = task_id)
  ELSE None

\* an UPDATE with its WHERE clause left out: it rewrites every row
UpdateWhereAll(r, record_id) == TRUE

\* WHERE id = ?
UpdateWhere(r, record_id) == r.id = record_id

\* update_record: [ok, rows]; ok is rows_affected > 0. updated_at becomes
\* datetime.now().isoformat(), a text of another format than CURRENT_TIMESTAMP
update_record(rows, record_id, raw_json, now) ==
  [ok |-> \E r \in rows : UpdateWhere(r, record_id),
   rows |-> {IF UpdateWhere(r, record_id)
             THEN [r EXCEPT !.raw_json = JsonDumps[raw_json], !.updated_at = <<"iso", now>>]
             ELSE r : r \in rows}]

\* a DELETE with its WHERE clause left out: it removes every row
DeleteWhereAll(r, record_id) == TRUE

\* WHERE id = ?
DeleteWhere(r, record_id) == r.id = record_id

\* delete_record: [ok, rows]; ok is rows_affected > 0
delete_record(rows, record_id) ==
  [ok |-> \E r \in rows : DeleteWhere(r, record_id),
   rows |-> {r \in rows : ~DeleteWhere(r, record_id)}]

(***************************************************************************)
(* The API service (backend/main.py): the endpoints.                       *)
(***************************************************************************)
\* str(uuid.uuid4()): an identifier no record carries; the model names the one
\* drawn while the store holds rowids up to n "task-<n+1>"
uuid4(rows, seq) == "task-" \o ToString(NextRowid(rows, seq))

\* upload_file for the request req = [filename, disk, env, pdf]: disk is "ok",
\* or "upload" / "result" when writing the uploaded file / the result file raises;
\* env and pdf are what the extraction meets. The answer is
\* [status, task_id, record_id, extracted, rows, seq].
upload_file(rows, seq, now, token, pdf_support, req) ==
  LET ext == FileExts[req.filename]
      task_id == uuid4(rows, seq)
      rejected(status) == [status |-> status, task_id |-> "", record_id |-> 0,
                           extracted |-> FieldsDoc(<<>>), rows |-> rows, seq |-> seq]
  IN IF req.filename = "" THEN rejected(400)
     ELSE IF ext \notin allowed_extensions THEN rejected(400)
     ELSE IF req.disk = "upload" THEN rejected(500)
     ELSE LET extracted_data == UploadExtractions[token, pdf_support, req]
          IN IF extracted_data.raised THEN rejected(500)
             ELSE IF req.disk = "result" THEN rejected(500)
             ELSE LET ins == insert_record(rows, seq, task_id, extracted_data.data, now) IN
                  IF ins.raised THEN rejected(500)
                  ELSE [status |-> 200, task_id |-> task_id, record_id |-> ins.record_id,
                        extracted |-> extracted_data.data, rows |-> ins.rows, seq |-> ins.seq]

\* GET /result/{task_id}: [status, body]
get_result(rows, task_id) ==
  LET record == get_record_by_task_id(rows, task_id) IN
  IF ~record.found THEN [status |-> 404, body |-> None]
  ELSE [status |-> 200, body |-> record]

\* GET /records/{record_id}: [status, body]
get_record(rows, record_id) ==
  LET record == get_record_by_id(rows, record_id) IN
  IF ~record.found THEN [status |-> 404, body |-> None]
  ELSE [status |-> 200, body |-> record]

\* PUT /records/{record_id} with the body {"raw_json": raw_json}: [status, body, rows].
\* UpdateRecordRequest takes any JSON object as raw_json and answers 422 to
\* anything else.
update_record_endpoint(rows, record_id, raw_json, now) ==
  IF raw_json.t # "obj" THEN [status |-> 422, body |-> None, rows |-> rows]
  ELSE IF ~get_record_by_id(rows, record_id).found
  THEN [status |-> 404, body |-> None, rows |-> rows]
  ELSE LET upd == update_record(rows, record_id, raw_json, now) IN
       IF ~upd.ok THEN [status |-> 500, body |-> None, rows |-> upd.rows]
       ELSE [status |-> 200, body |-> get_record_by_id(upd.rows, record_id), rows |-> upd.rows]

\* DELETE /records/{record_id}: [status, rows]
delete_record_endpoint(rows, record_id) ==
  LET del == delete_record(rows, record_id) IN
  IF ~del.ok THEN [status |-> 404, rows |-> del.rows]
  ELSE [status |-> 200, rows |-> del.rows]

(***************************************************************************)
(* State. records and sqlite_sequence are the database file, clock the     *)
(* wall clock in seconds; hf_token (is an API key configured) and          *)
(* PDF_SUPPORT (did pdf2image import) are fixed when the process starts.   *)
(* last is the latest call with its answer. written and deleted are        *)
(* history: what was last written under the id of each stored record, and  *)
(* the ids deleted.                                                        *)
(***************************************************************************)
Init ==
  /\ records = {}
  /\ sqlite_sequence = 0
  /\ clock = 0
  /\ hf_token \in BOOLEAN
  /\ PDF_SUPPORT \in BOOLEAN
  /\ last = [op |-> "init"]
  /\ written = <<>>
  /\ deleted = {}

Config == <<hf_token, PDF_SUPPORT>>

Store == <<records, sqlite_sequence, written, deleted>>

Tick ==
  /\ clock < MaxClock
  /\ clock' = clock + 1
  /\ last' = [op |-> "tick"]
  /\ UNCHANGED <<Config, Store>>

\* insert_record(task_id, raw_json)
Insert(task_id, raw_json) ==
  LET r == insert_record(records, sqlite_sequence, task_id, raw_json, clock) IN
  /\ sqlite_sequence < MaxSeq \/ r.raised
  /\ records' = r.rows
  /\ sqlite_sequence' = r.seq
  /\ last' = [op |-> "insert", task_id |-> task_id, raised |-> r.raised, id |-> r.record_id]
  /\ written' = IF r.raised THEN written
                ELSE (r.record_id :> [task_id |-> task_id, doc |-> raw_json]) @@ written
  /\ UNCHANGED <<clock, Config, deleted>>

\* get_all_records()
GetAll ==
  /\ \E listing \in get_all_records(records) : last' = [op |-> "get_all", listing |-> listing]
  /\ UNCHANGED <<clock, Config, Store>>

\* get_record_by_id(record_id)
GetById(record_id) ==
  /\ last' = [op |-> "get_by_id", id |-> record_id, record |-> get_record_by_id(records, record_id)]
  /\ UNCHANGED <<clock, Config, Store>>

\* get_record_by_task_id(task_id)
GetByTaskId(task_id) ==
  /\ last' = [op |-> "get_by_task_id", task_id |-> task_id,
              record |-> get_record_by_task_id(records, task_id)]
  /\ UNCHANGED <<clock, Config, Store>>

\* update_record(record_id, raw_json)
Update(record_id, raw_json) ==
  LET r == update_record(records, record_id, raw_json, clock) IN
  /\ records' = r.rows
  /\ last' = [op |-> "update", id |-> record_id, ok |-> r.ok]
  /\ written' = IF r.ok /\ record_id \in DOMAIN written
                THEN [written EXCEPT ![record_id].doc = raw_json] ELSE written
  /\ UNCHANGED <<clock, Config, sqlite_sequence, deleted>>

\* delete_record(record_id)
Delete(record_id) ==
  LET r == delete_record(records, record_id) IN
  /\ records' = r.rows
  /\ last' = [op |-> "delete", id |-> record_id, ok |-> r.ok]
  /\ deleted' = IF r.ok THEN deleted \cup {record_id} ELSE deleted
  /\ written' = [i \in DOMAIN written \ (IF r.ok THEN {record_id} ELSE {}) |-> written[i]]
  /\ UNCHANGED <<clock, Config, sqlite_sequence>>

\* POST /upload
Upload(req) ==
  LET r == upload_file(records, sqlite_sequence, clock, hf_token, PDF_SUPPORT, req) IN
  /\ sqlite_sequence < MaxSeq \/ r.status # 200
  /\ records' = r.rows
  /\ sqlite_sequence' = r.seq
  /\ last' = [op |-> "POST /upload", req |-> req, status |-> r.status, task_id |-> r.task_id,
              record_id |-> r.record_id, extracted |-> r.extracted]
  /\ written' = IF r.status # 200 THEN written
                ELSE (r.record_id :> [task_id |-> r.task_id, doc |-> r.extracted]) @@ written
  /\ UNCHANGED <<clock, Config, deleted>>

\* GET /result/{task_id}
GetResult(task_id) ==
  /\ last' = [op |-> "GET /result"] @@ get_result(records, task_id)
  /\ UNCHANGED <<clock, Config, Store>>

\* GET /records
ListRecords ==
  /\ \E listing \in get_all_records(records) :
       last' = [op |-> "GET /records", status |-> 200, records |-> listing, count |-> Len(listing)]
  /\ UNCHANGED <<clock, Config, Store>>

\* GET /records/{record_id}
GetRecord(record_id) ==
  /\ last' = [op |-> "GET /records/id", id |-> record_id] @@ get_record(records, record_id)
  /\ UNCHANGED <<clock, Config, Store>>

\* PUT /records/{record_id}
PutRecord(record_id, raw_json) ==
  LET r == update_record_endpoint(records, record_id, raw_json, clock) IN
  /\ records' = r.rows
  /\ last' = [op |-> "PUT /records/id", id |-> record_id, status |-> r.status, body |-> r.body]
  /\ written' = IF r.status = 200 /\ record_id \in DOMAIN written
                THEN [written EXCEPT ![record_id].doc = raw_json] ELSE written
  /\ UNCHANGED <<clock, Config, sqlite_sequence, deleted>>

\* DELETE /records/{record_id}
DeleteRecord(record_id) ==
  LET r == delete_record_endpoint(records, record_id) IN
  /\ records' = r.rows
  /\ last' = [op |-> "DELETE /records/id", id |-> record_id, status |-> r.status]
  /\ deleted' = IF r.status = 200 THEN deleted \cup {record_id} ELSE deleted
  /\ written' = [i \in DOMAIN written \ (IF r.status = 200 THEN {record_id} ELSE {}) |-> written[i]]
  /\ UNCHANGED <<clock, Config, sqlite_sequence>>

\* one call of extract_text_from_image
ExtractImage(env) ==
  /\ last.op = "init"
  /\ last' = [op |-> "extract_text_from_image", env |-> env,
              result |-> extract_text_from_image(hf_token, env)]
  /\ UNCHANGED <<clock, Config, Store>>

\* one call of extract_text_from_pdf
ExtractPdf(pdf) ==
  /\ last.op = "init"
  /\ last' = [op |-> "extract_text_from_pdf", pdf |-> pdf,
              result |-> extract_text_from_pdf(hf_token, PDF_SUPPORT, pdf)]
  /\ UNCHANGED <<clock, Config, Store>>

(***************************************************************************)
(* Spec: the service driven through its HTTP endpoints. The clock stands   *)
(* still here: no answer of an endpoint depends on it.                     *)
(***************************************************************************)
Next ==
  \/ \E req \in Requests : Upload(req)
  \/ \E task_id \in {"task-1", "task-2", "missing"} : GetResult(task_id)
  \/ ListRecords
  \/ \E record_id \in RecordIds : GetRecord(record_id)
  \/ \E record_id \in RecordIds, raw_json \in PutBodies : PutRecord(record_id, raw_json)
  \/ \E record_id \in RecordIds : DeleteRecord(record_id)

Spec == Init /\ [][Next]_vars

(***************************************************************************)
(* SpecStore: the record store driven by direct calls of its functions,    *)
(* and through the two endpoints that wrap update and delete, within one   *)
(* second of the clock.                                                    *)
(***************************************************************************)
NextStore ==
  \/ \E task_id \in TaskIds, raw_json \in Docs : Insert(task_id, raw_json)
  \/ GetAll
  \/ \E record_id \in RecordIds : GetById(record_id)
  \/ \E task_id \in TaskIds : GetByTaskId(task_id)
  \/ \E record_id \in RecordIds, raw_json \in Docs : Update(record_id, raw_json)
  \/ \E record_id \in RecordIds : Delete(record_id)
  \/ \E record_id \in RecordIds, raw_json \in Docs : PutRecord(record_id, raw_json)
  \/ \E record_id \in RecordIds : DeleteRecord(record_id)

SpecStore == Init /\ [][NextStore]_vars

(***************************************************************************)
(* SpecClock: the record store driven by direct calls while the clock      *)
(* advances.                                                               *)
(***************************************************************************)
NextClock ==
  \/ Tick
  \/ \E task_id \in TaskIds, raw_json \in Docs : Insert(task_id, raw_json)
  \/ GetAll
  \/ \E record_id \in RecordIds : Update(record_id, DocEmpty)
  \/ \E record_id \in RecordIds : Delete(record_id)

SpecClock == Init /\ [][NextClock]_vars

(***************************************************************************)
(* SpecExtract: the two extraction functions, each applied once to an      *)
(* input.                                                                  *)
(***************************************************************************)
NextExtract ==
  \/ \E env \in Envs : ExtractImage(env)
  \/ \E pdf \in Pdfs : ExtractPdf(pdf)

SpecExtract == Init /\ [][NextExtract]_vars

(***************************************************************************)
(* Properties of the record store, checked under SpecStore.                *)
(***************************************************************************)
TaskIdsOf(rows) == {r.task_id : r \in rows}

\* C1: every stored record is read back, by its id and by its task id, as one
\* record that carries the document last written to it by insert or update,
\* under the id and the task id it was inserted with.
C1_ReadsReturnLastWrite ==
  \A r \in records :
    LET by_id == get_record_by_id(records, r.id)
        by_task_id == get_record_by_task_id(records, r.task_id)
    IN /\ r.id \in DOMAIN written
       /\ by_id.found /\ by_task_id.found
       /\ by_id.id = r.id /\ by_task_id.id = r.id
       /\ by_id.task_id = written[r.id].task_id
       /\ by_task_id.task_id = written[r.id].task_id
       /\ by_id.raw_json = written[r.id].doc
       /\ by_task_id.raw_json = written[r.id].doc

\* an update has just replaced the document of one of two stored records
C1_Witness ==
  /\ last.op = "update" /\ last.ok
  /\ Cardinality(records) = 2
  /\ written[last.id].doc = DocQuote
  /\ \E r \in records : r.id # last.id /\ written[r.id].doc = DocEmpty

\* C2: no two stored records share a task id, and an insert under a task id that
\* a stored record carries raises and leaves the records as they were.
C2_TaskIdUnique ==
  /\ [](\A r1, r2 \in records : r1.task_id = r2.task_id => r1 = r2)
  /\ [][(last'.op = "insert" /\ last'.task_id \in TaskIdsOf(records))
          => (last'.raised /\ records' = records)]_vars

\* an insert under a task id already stored has just been refused
C2_Witness ==
  /\ last.op = "insert" /\ last.raised
  /\ last.task_id \in TaskIdsOf(records)

OthersUnchanged(id) == {r \in records : r.id # id} = {r \in records' : r.id # id}

\* C5: update and delete return true exactly when a record with the id was stored
\* before the call, PUT and DELETE /records/{record_id} answer 404 exactly when
\* none was; a call that finds no record leaves the records as they were, and
\* every call leaves the records with another id as they were.
C5_UpdateDeleteFrame ==
  [][/\ last'.op \in {"update", "delete"} =>
          /\ last'.ok <=> last'.id \in Ids(records)
          /\ ~last'.ok => records' = records
          /\ OthersUnchanged(last'.id)
     /\ last'.op \in {"PUT /records/id", "DELETE /records/id"} =>
          /\ last'.status = 404 <=> last'.id \notin Ids(records)
          /\ last'.status = 404 => records' = records
          /\ OthersUnchanged(last'.id)]_vars

\* an update of an id that is not stored has just returned false, with two
\* records stored
C5_Witness ==
  /\ last.op = "update" /\ ~last.ok
  /\ Cardinality(records) = 2

\* C6: a deleted id stays gone: no read finds it, no listing holds it, update and
\* delete of it return false, and no later insert is given it.
C6_DeletionPermanent ==
  /\ [](\A id \in deleted :
          /\ ~get_record_by_id(records, id).found
          /\ \A listing \in get_all_records(records) :
               \A i \in 1..Len(listing) : listing[i].id # id)
  /\ [][/\ (last'.op \in {"update", "delete"} /\ last'.id \in deleted) => ~last'.ok
        /\ (last'.op = "insert" /\ ~last'.raised) => last'.id \notin deleted]_vars

\* an insert has just succeeded while the store was empty because its only
\* record had been deleted
C6_Witness ==
  /\ last.op = "insert" /\ ~last.raised
  /\ deleted = {1}
  /\ Ids(records) = {last.id}

(***************************************************************************)
(* Properties of the listing, checked under SpecClock.                     *)
(***************************************************************************)
\* C9: get_all returns every stored record once, and never a record created
\* later (one with a greater id) after a record created earlier.
C9_NewestFirst ==
  last.op = "get_all" =>
    /\ Len(last.listing) = Cardinality(records)
    /\ {last.listing[i].id : i \in 1..Len(last.listing)} = Ids(records)
    /\ \A i, j \in 1..Len(last.listing) : i < j => last.listing[i].id > last.listing[j].id

(***************************************************************************)
(* Properties of the API, checked under Spec.                              *)
(***************************************************************************)
IsLabelValuePair(x) == x.t = "obj" /\ HasKey(x, "label") /\ HasKey(x, "value")

IsFieldsDocument(doc) ==
  /\ doc.t = "obj" /\ HasKey(doc, "fields")
  /\ LET fields == Get(doc, "fields") IN
       fields.t = "arr" /\ \A i \in 1..Len(fields.v) : IsLabelValuePair(fields.v[i])

\* C3: the raw_json of every stored record deserializes to a container with a
\* `fields` key that holds a sequence of label/value pairs.
C3_RawJsonIsFieldsDocument ==
  \A r \in records :
    JsonLoads[r.raw_json].ok /\ IsFieldsDocument(JsonLoads[r.raw_json].val)

\* the file names of the requests that the extension gate turns away
RejectedNames == {"", "notes.txt", "README", ".pdf", "form.png.exe", "v1.2/png"}

\* C4: a POST /upload that answers 200 adds exactly one record, under a new id,
\* with the id and the task id of the answer and the extraction result as its
\* document; one that answers 400 or 500 leaves the records as they were; 400 is
\* the answer exactly to a missing file name or an extension outside .png, .jpg,
\* .jpeg and .pdf whatever its case; and no other call adds a record.
C4_OneRecordPerSuccessfulUpload ==
  [][/\ last'.op = "POST /upload" =>
          /\ last'.status \in {200, 400, 500}
          /\ last'.status = 400 <=> last'.req.filename \in RejectedNames
          /\ last'.status # 200 => records' = records
          /\ last'.status = 200 =>
               /\ last'.record_id \notin Ids(records)
               /\ last'.task_id \notin TaskIdsOf(records)
               /\ \E r \in records' :
                    /\ r \notin records /\ records' = records \cup {r}
                    /\ r.id = last'.record_id /\ r.task_id = last'.task_id
                    /\ JsonLoads[r.raw_json].ok
                    /\ JsonLoads[r.raw_json].val = last'.extracted
               /\ get_result(records', last'.task_id).status = 200
               /\ get_result(records', last'.task_id).body.id = last'.record_id
     /\ last'.op # "POST /upload" => Ids(records') \subseteq Ids(records)]_vars

\* the upload of a two-page PDF has just answered 200 with the three fields of
\* its pages in one record, the second record of the store
C4_Witness ==
  /\ last.op = "POST /upload" /\ last.status = 200
  /\ last.req.filename = "doc.pdf" /\ Len(last.req.pdf.pages) = 2
  /\ hf_token /\ PDF_SUPPORT
  /\ Cardinality(records) = 2
  /\ Len(Get(get_record(records, last.record_id).body.raw_json, "fields").v) = 3

\* text has no { with a } after it
NoSpan(text) ==
  ~\E i \in 1..Len(text) : CharAt(text, i) = "{" /\ \E j \in (i + 1)..Len(text) : CharAt(text, j) = "}"

\* the uploads whose model response has no { ... } substring
SpanlessUploads == {env \in UploadEnvs : NoSpan(env.payload.text)}

\* the response text of each of them, cut to at most 500 characters
Truncated500 ==
  [env \in SpanlessUploads |->
     LET text == env.payload.text IN IF Len(text) <= 500 THEN text ELSE SubSeq(text, 1, 500)]

\* the file names of the requests that are dispatched to extract_text_from_image
ImageNames == {"form.png", "photo.Jpeg", "scans/scan.JPG"}

\* C8: the upload of an image whose model response (HTTP 200) has no { ... }
\* substring answers 200, and the record stored for it holds a fields document
\* with a field whose value is the response text cut to at most 500 characters.
C8_SpanlessResponseStored ==
  (/\ last.op = "POST /upload" /\ last.req.filename \in ImageNames
   /\ last.req.disk = "ok" /\ hf_token
   /\ last.req.env \in SpanlessUploads)
  => /\ last.status = 200
     /\ LET record == get_record(records, last.record_id).body IN
          /\ record.found /\ record.task_id = last.task_id
          /\ IsFieldsDocument(record.raw_json)
          /\ LET fields == Get(record.raw_json, "fields").v IN
               \E i \in 1..Len(fields) :
                 Get(fields[i], "value") = JStr(Truncated500[last.req.env])

\* the upload of an image has just answered 200 to a response of 501 characters
\* without a brace
C8_Witness ==
  /\ last.op = "POST /upload" /\ last.status = 200
  /\ last.req.filename = "form.png" /\ hf_token
  /\ last.req.env = Chat(Repeat("y", 501))
  /\ last.record_id \in Ids(records)

(***************************************************************************)
(* Properties of the extraction functions, checked under SpecExtract.      *)
(***************************************************************************)
\* the field list the extraction of a page yields
PageFields(env) == Get(extract_text_from_image(TRUE, env).data, "fields").v

\* a field list of objects with a text label
IsFieldList(fields) ==
  \A i \in 1..Len(fields) :
    fields[i].t = "obj" /\ HasKey(fields[i], "label") /\ Get(fields[i], "label").t = "str"

\* field with "Page k - " put before its label, all else as it was
Relabelled(field, k) ==
  JObj([m \in 1..Len(field.v) |->
          IF field.v[m].k = "label"
          THEN [k |-> "label", v |-> JStr("Page " \o ToString(k) \o " - " \o field.v[m].v.v)]
          ELSE field.v[m]])

RECURSIVE FieldsBefore(_, _)
\* the number of fields on the pages before page k
FieldsBefore(pages, k) ==
  IF k <= 1 THEN 0 ELSE FieldsBefore(pages, k - 1) + Len(PageFields(pages[k - 1]))

\* C7: for a readable PDF whose pages each yield a list of fields,
\* extract_text_from_pdf returns one fields document; it holds the fields of page
\* 1, then those of page 2, and so on, each page's fields in their own order,
\* the label of every field of page k with "Page k - " before it and the rest of
\* the field as it was; or, when there is no page or no page yields a field, it
\* holds a single placeholder field.
C7_PagesConcatenated ==
  (/\ last.op = "extract_text_from_pdf" /\ hf_token /\ PDF_SUPPORT
   /\ last.pdf.readable
   /\ \A k \in 1..Len(last.pdf.pages) : IsFieldList(PageFields(last.pdf.pages[k])))
  => LET pages == last.pdf.pages
         n == Len(pages)
         total == FieldsBefore(pages, n + 1)
         doc == last.result
     IN /\ doc.t = "obj" /\ Len(doc.v) = 1 /\ HasKey(doc, "fields")
        /\ Get(doc, "fields").t = "arr"
        /\ LET fields == Get(doc, "fields").v IN
             IF total = 0
             THEN Len(fields) = 1 /\ IsLabelValuePair(fields[1])
                  /\ Get(fields[1], "label").v \in {"PDF Error", "No Data"}
             ELSE /\ Len(fields) = total
                  /\ \A k \in 1..n : \A i \in 1..Len(PageFields(pages[k])) :
                       fields[FieldsBefore(pages, k) + i] = Relabelled(PageFields(pages[k])[i], k)

\* a PDF of two pages, with two fields on the first and one on the second, has
\* just been extracted to three fields
C7_Witness ==
  /\ last.op = "extract_text_from_pdf" /\ hf_token /\ PDF_SUPPORT
  /\ last.pdf = [readable |-> TRUE, pages |-> <<Chat(TextTwoFields), Chat(TextOneField)>>]
  /\ Len(Get(last.result, "fields").v) = 3

\* excerpt is a non-empty substring of text
IsExcerpt(excerpt, text) ==
  /\ excerpt # ""
  /\ \E i \in 1..(Len(text) - Len(excerpt) + 1) : SubSeq(text, i, i + Len(excerpt) - 1) = excerpt

\* C10: when the text between the first { and the last } of the model's response
\* is no JSON, or is an object without a list under "fields",
\* extract_text_from_image returns a fields document with a field whose value is
\* an excerpt of the response text, of at most 300 characters when the text is no
\* JSON.
C10_DiagnosticCarriesExcerpt ==
  (/\ last.op = "extract_text_from_image" /\ hf_token
   /\ last.env.fault = "none" /\ last.env.status = 200
   /\ ~GeneratedText(last.env.payload).raised)
  => LET text == GeneratedText(last.env.payload).text
         start == Find(text, "{")
         end == RFind(text, "}")
         parsed == json_loads(SubSeq(text, start, end))
         misshapen == parsed.ok /\ ~(HasKey(parsed.val, "fields") /\ Get(parsed.val, "fields").t = "arr")
         fields == Get(last.result.data, "fields").v
     IN (start # 0 /\ end > start /\ (~parsed.ok \/ misshapen))
        => \E i \in 1..Len(fields) :
             LET value == Get(fields[i], "value").v IN
             /\ IsExcerpt(value, text)
             /\ ~parsed.ok => Len(value) <= 300

====
